---- MODULE Spec2Model ----
(***************************************************************************)
(* A model of bin/dnssec/dnssec-ksr.c: the keygen command (the ZSK         *)
(* schedule planner) and the request command (the DNSKEY bundle emitter),  *)
(* run one after the other against one key directory.                      *)
(*                                                                         *)
(* Instants are isc_stdtime_t values, unsigned and of fixed width; the     *)
(* model keeps the wrap-around of that type but scales its width from 32   *)
(* bits down to StdtimeBits bits.  One tick of the model is one day when a *)
(* calendar date of the specification is meant (TicksPerDay).              *)
(*                                                                         *)
(* The module also holds a model of bin/named/interfacemgr.c: the thread   *)
(* of the server that calls ns_interfacemgr_scan() and                     *)
(* ns_interfacemgr_shutdown(), and the clients that attach to and detach   *)
(* from the interfaces (SpecNamed).                                        *)
(***************************************************************************)
EXTENDS Integers, Sequences, FiniteSets, TLC

\* ------------------------------------------------------------------ bounds

\* Width, in bits, of the scaled isc_stdtime_t.
StdtimeBits == 15
\* Longest policy (number of key entries).
MaxPolicy == 2
\* Largest key directory the first invocation starts from.
MaxInitKeys == 2
\* Number of command invocations in one behaviour.
MaxRuns == 2
\* Candidate keys the generator may draw in one behaviour.
MaxDraws == 10
\* Lines of standard output one invocation may write.
MaxOut == 14
\* Ticks of the model in one calendar day.
TicksPerDay == 1
\* IPv4 socket addresses (interface address and listen-on port) of the system.
MaxAddr == 1
\* Addresses do_ipv4() finds to listen on in one scan.
MaxIter == 2
\* Calls of ns_interfacemgr_scan() and ns_interfacemgr_shutdown().
MaxCalls == 2
\* References the clients hold on one interface.
MaxRefs == 1
\* Width, in bits, of the scaled generation number (an unsigned int).
GenerationBits == 1

\* -------------------------------------------------------- program constants

DST_ALG_RSASHA1 == 5
DST_ALG_NSEC3RSASHA1 == 7
DST_ALG_RSASHA256 == 8
DST_ALG_RSASHA512 == 10
DST_ALG_ECDSA256 == 13
DST_ALG_ECDSA384 == 14
DST_ALG_ED25519 == 15
DST_ALG_ED448 == 16
MAX_RSA == 4096
MIN_RSA == 1024
MIN_RSA_FIPS == 2048

\* ------------------------------------------------------------ time model

StdtimeMod == 2 ^ StdtimeBits

\* Conversion of a C integer expression to isc_stdtime_t (uint32_t).
ToStdtime(x) == x % StdtimeMod

\* A timing field of a key that was never set.
Unset == 0 - 1

\* isc_stdtime_t t = 0; (void)dst_key_gettime(key, type, &t);
gettime(k, f) == IF k[f] = Unset THEN 0 ELSE k[f]

\* ------------------------------------------------------------- key tags

\* Width of the scaled 16-bit key tag, and the change of the tag when the
\* revoke bit of the flags is set.
TagMod == 16
RevokeShift == 3

dst_key_rid(tag) == (tag + RevokeShift) % TagMod

\* The file stem K<zone>+<alg>+<tag> of a key.
Stem(k) == <<k.alg, k.tag>>

\* key_collision(): an existing key of the same algorithm has the same tag,
\* or one of the two tags is the other's tag after revocation.
key_collision(alg, tag, dir) ==
    \E k \in dir :
        /\ k.alg = alg
        /\ \/ k.tag = tag
           \/ dst_key_rid(k.tag) = tag
           \/ k.tag = dst_key_rid(tag)

\* ------------------------------------------------------ policy and keys

ZSK(alg, size, lifetime) ==
    [ksk |-> FALSE, zsk |-> TRUE, alg |-> alg, size |-> size, lifetime |-> lifetime]

KSK(alg, size, lifetime) ==
    [ksk |-> TRUE, zsk |-> FALSE, alg |-> alg, size |-> size, lifetime |-> lifetime]

CSK(alg, size, lifetime) ==
    [ksk |-> TRUE, zsk |-> TRUE, alg |-> alg, size |-> size, lifetime |-> lifetime]

\* dns_kasp_key_match(): same algorithm, same (ksk, zsk) role pair.
dns_kasp_key_match(kaspkey, dk) ==
    /\ dk.alg = kaspkey.alg
    /\ dk.ksk = kaspkey.ksk
    /\ dk.zsk = kaspkey.zsk

\* A get_dnskeys() that keeps the order the directory was read in: every
\* order of the keys.
RECURSIVE get_dnskeysUnsorted(_)
get_dnskeysUnsorted(dir) ==
    IF dir = {} THEN {<<>>}
    ELSE UNION { { <<k>> \o s : s \in get_dnskeysUnsorted(dir \ {k}) } : k \in dir }

\* keytag_cmp() and the qsort() of get_dnskeys(): every order of the keys
\* that is ascending in the key tag (keys of equal tag in either order).
RECURSIVE get_dnskeys(_)
get_dnskeys(dir) ==
    IF dir = {} THEN {<<>>}
    ELSE UNION { { <<k>> \o s : s \in get_dnskeys(dir \ {k}) } :
                 k \in { m \in dir : \A j \in dir : m.tag <= j.tag } }

\* A pre-publication interval that leaves the propagation delay out.
PrepubNoPropagation(k) == ToStdtime(k.ttl + k.publishsafety)

\* The pre-publication and removal intervals create_zsk() computes from the
\* durations setcontext() took from the policy.
Prepub(k) == ToStdtime(k.ttl + k.publishsafety + k.propagation)

Remove(k) == ToStdtime(k.ttlsig + k.propagation + k.retiresafety + k.signdelay)

\* ------------------------------------------------------------ create_zsk

\* dst_algorithm_supported(): the algorithms the crypto library implements.
dst_algorithm_supported(alg) ==
    alg \in { DST_ALG_RSASHA1, DST_ALG_NSEC3RSASHA1, DST_ALG_RSASHA256,
              DST_ALG_RSASHA512, DST_ALG_ECDSA256, DST_ALG_ECDSA384,
              DST_ALG_ED25519, DST_ALG_ED448 }

\* "Check algorithm and size": the fatal message, or "" when the check passes.
CheckAlgorithm(alg, size, fips, minrsa) ==
    IF ~dst_algorithm_supported(alg) THEN "unsupported algorithm"
    ELSE IF alg \in {DST_ALG_RSASHA1, DST_ALG_NSEC3RSASHA1} /\ fips
         THEN "unsupported algorithm"
    ELSE IF /\ alg \in { DST_ALG_RSASHA1, DST_ALG_NSEC3RSASHA1,
                         DST_ALG_RSASHA256, DST_ALG_RSASHA512 }
            /\ size # 0
            /\ (size < minrsa \/ size > MAX_RSA)
         THEN "RSA key size out of range"
    ELSE ""

\* The key size create_zsk generates with: fixed for the curve algorithms.
KeySize(alg, size) ==
    CASE alg = DST_ALG_ECDSA256 -> 256
      [] alg = DST_ALG_ECDSA384 -> 384
      [] alg = DST_ALG_ED25519 -> 256
      [] alg = DST_ALG_ED448 -> 456
      [] OTHER -> size

\* "Check existing keys": whether key dk is taken for the bundle at inception.
Eligible(kaspkey, dk, incep) ==
    /\ dns_kasp_key_match(kaspkey, dk)
    /\ ~(gettime(dk, "activate") > incep)
    /\ ~(gettime(dk, "inactive") > 0 /\ incep >= gettime(dk, "inactive"))

\* Index of the first key of the list that is taken, 0 when there is none.
FindExisting(kaspkey, list, incep) ==
    IF \E i \in 1..Len(list) : Eligible(kaspkey, list[i], incep)
    THEN CHOOSE i \in 1..Len(list) :
             /\ Eligible(kaspkey, list[i], incep)
             /\ \A j \in 1..(i - 1) : ~Eligible(kaspkey, list[j], incep)
    ELSE 0

\* The key tag of the r-th candidate the generator draws.
CandidateTag(r) == r % TagMod

\* A generator that keeps its first candidate, colliding or not.
FirstFreeNoRetry(r, alg, dir) == IF r > MaxDraws THEN 0 ELSE r

\* The do-while loop around dst_key_generate() and key_collision(): the
\* position of the first candidate from r on that collides with no key of
\* the directory, 0 when the draws of the model are used up.
RECURSIVE FirstFree(_, _, _)
FirstFree(r, alg, dir) ==
    IF r > MaxDraws THEN 0
    ELSE IF key_collision(alg, CandidateTag(r), dir) THEN FirstFree(r + 1, alg, dir)
    ELSE r

\* "Set key timing metadata": the key written for active instant 'active'.
StampKey(tag, c, k, active) ==
    LET prepub == Prepub(k)
        inactive == ToStdtime(active + c.lifetime)
        remove == Remove(k)
    IN [ alg |-> c.alg, tag |-> tag, size |-> KeySize(c.alg, c.size),
         ksk |-> FALSE, zsk |-> TRUE,
         ttl |-> k.ttl, lifetime |-> c.lifetime,
         created |-> c.now,
         publish |-> ToStdtime(active - prepub),
         activate |-> active,
         inactive |-> IF c.lifetime > 0 THEN inactive ELSE Unset,
         delete |-> IF c.lifetime > 0 THEN ToStdtime(inactive + remove) ELSE Unset ]

\* *expiration after a key was generated.
Expiration(c, active) ==
    IF c.lifetime > 0 THEN ToStdtime(active + c.lifetime) ELSE 0

\* ---------------------------------------------------------- print_dnskey

\* A next bundle that only follows the Publish times of the keys.
NextBundlePublishOnly(dk, incep, nb) ==
    LET pub == gettime(dk, "publish")
    IN IF pub > 0 /\ pub > incep /\ pub < nb THEN pub ELSE nb

\* "Determine next bundle": next_bundle after key dk was looked at.
NextBundle(dk, incep, nb) ==
    LET pub == gettime(dk, "publish")
        del == gettime(dk, "delete")
        nb1 == IF pub > 0 /\ pub > incep /\ pub < nb THEN pub ELSE nb
    IN IF del > 0 /\ del > incep /\ del < nb1 THEN del ELSE nb1

\* A bundle that takes the key that is active at the inception.
PublishedByActivation(kaspkey, dk, incep) == Eligible(kaspkey, dk, incep)

\* "Find matching key": whether the DNSKEY of dk is printed in the bundle.
Published(kaspkey, dk, incep) ==
    /\ dns_kasp_key_match(kaspkey, dk)
    /\ ~(gettime(dk, "publish") > incep)
    /\ ~(gettime(dk, "delete") # 0 /\ incep >= gettime(dk, "delete"))

\* The loop of print_dnskey() over the key list from index i on: the value
\* of next_bundle and the DNSKEY lines printed.
RECURSIVE print_dnskey_loop(_, _, _, _, _, _)
print_dnskey_loop(kaspkey, list, i, incep, nb, out) ==
    IF i > Len(list) THEN [next |-> nb, out |-> out]
    ELSE print_dnskey_loop(
             kaspkey, list, i + 1, incep, NextBundle(list[i], incep, nb),
             IF Published(kaspkey, list[i], incep)
             THEN Append(out, [line |-> "DNSKEY", key |-> Stem(list[i]), at |-> incep])
             ELSE out)

\* A print_dnskey() that returns normally when it found no key pair.
print_dnskeyNoFatal(kaspkey, list, incep, nb) ==
    LET r == print_dnskey_loop(kaspkey, list, 1, incep, nb, <<>>)
    IN [next |-> r.next, out |-> r.out, found |-> TRUE]

\* print_dnskey(): next_bundle, the lines printed, and whether a key pair was
\* found (when none is, the call is fatal).
print_dnskey(kaspkey, list, incep, nb) ==
    LET r == print_dnskey_loop(kaspkey, list, 1, incep, nb, <<>>)
    IN [next |-> r.next, out |-> r.out, found |-> r.out # <<>>]

\* The for loop of request() over the policy keys from index j on, for one
\* bundle: next, the lines printed, and the index of the entry whose
\* print_dnskey() call was fatal (0 when none was).
RECURSIVE request_bundle(_, _, _, _, _, _)
request_bundle(pol, list, j, incep, nb, out) ==
    IF j > Len(pol) THEN [next |-> nb, out |-> out, failed |-> 0]
    ELSE LET r == print_dnskey(pol[j], list, incep, nb)
         IN IF ~r.found THEN [next |-> r.next, out |-> out \o r.out, failed |-> j]
            ELSE request_bundle(pol, list, j + 1, incep, r.next, out \o r.out)

\* ------------------------------------------------------------------ state

VARIABLES
    opts,       \* the command line: which options were given, and -i, -e, -F
    conf,       \* the configuration file: "ok", "unparsable" or "nopolicy"
    policy,     \* dns_kasp_keys(kasp): the key entries of the policy, in order
    kasp,       \* the durations of the policy
    sysfips,    \* whether the crypto library starts in FIPS mode
    faults,     \* the library calls that may fail: "generate", "tofile"
    disk,       \* the key directory: the set of keys of the zone on disk
    rng,        \* position of the next candidate the generator draws
    clock,      \* isc_stdtime_now()
    pc,         \* where the process is: "idle", "keygen_kk", "keygen_zsk",
                \* "request" or "exit"
    cmd,        \* the command of the current invocation
    ksr,        \* ksr_ctx_t: now, start, end, alg, size, lifetime
    fipsmode,   \* isc_fips_mode()
    min_rsa,    \* the global min_rsa
    keys,       \* the key list read by get_dnskeys()
    kk,         \* index of the policy entry of the for loops
    noop,       \* keygen's noop
    inception,  \* inception of the inner loop of keygen, and of request
    act,        \* act of the inner loop of keygen
    stdout,     \* the lines written to standard output by this invocation
    err,        \* the fatal message of this invocation, "" when there is none
    gens,       \* history: the create_zsk() calls of this invocation
    disk0,      \* history: the key directory when this invocation started
    prev,       \* history: the invocation before this one
    nruns,      \* number of invocations so far
    mgr,        \* ns_interfacemgr_t: generation, references, lock
    interfaces, \* mgr->interfaces: the list of ns_interface_t
    unlinked,   \* the interfaces taken off the list that clients still hold:
                \* how many of them have r references, for every r
    nthread,    \* the thread that calls the interface manager: its position
                \* and the call it makes or made last
    scan        \* the scan under way: the result of isc_net_probeipv6(), the
                \* addresses do_ipv4() has yet to listen on; history:
                \* the addresses listed before, seen, and failed on UDP

vars ==
    << opts, conf, policy, kasp, sysfips, faults, disk, rng, clock, pc, cmd, ksr,
       fipsmode, min_rsa, keys, kk, noop, inception, act, stdout, err, gens,
       disk0, prev, nruns, mgr, interfaces, unlinked, nthread, scan >>

\* The state of named's interface manager.
named == << mgr, interfaces, unlinked, nthread, scan >>

inputs == << opts, conf, policy, kasp, sysfips, faults >>

\* ns_interfacemgr_create(): generation 1, one reference, an empty list.
InitNamed ==
    /\ mgr = [generation |-> 1, references |-> 1, lock |-> FALSE]
    /\ interfaces = <<>>
    /\ unlinked = [r \in 1..MaxRefs |-> 0]
    /\ nthread = [pc |-> "idle", call |-> "none", calls |-> 0]
    /\ scan = [ipv6 |-> FALSE, iter |-> <<>>, before |-> {}, seen |-> {}, failed |-> {}]

\* -------------------------------------------------------- initial states

EntryChoices ==
    { ZSK(DST_ALG_ECDSA256, 0, 2),
      ZSK(DST_ALG_ECDSA256, 0, 0),
      ZSK(DST_ALG_RSASHA256, 2048, 3),
      ZSK(DST_ALG_ECDSA256, 0, StdtimeMod - 3),
      KSK(DST_ALG_ECDSA256, 0, 0),
      CSK(DST_ALG_ECDSA256, 0, 0) }

Policies == UNION { [1..n -> EntryChoices] : n \in 1..MaxPolicy }

NoDurations ==
    [ propagation |-> 0, publishsafety |-> 0, retiresafety |-> 0,
      signdelay |-> 0, ttl |-> 0, ttlsig |-> 0 ]

SomeDurations ==
    [ propagation |-> 1, publishsafety |-> 2, retiresafety |-> 1,
      signdelay |-> 1, ttl |-> 1, ttlsig |-> 3 ]

Timings == { NoDurations, SomeDurations }

\* The windows <<start, end>>: empty, a multiple of the lifetime 2, not a
\* multiple, end before start, a start below the prepublication interval, and
\* a window that ends at the last instant of isc_stdtime_t.
Windows ==
    { <<8, 8>>, <<8, 12>>, <<8, 13>>, <<9, 8>>, <<1, 4>>,
      <<StdtimeMod - 4, StdtimeMod - 1>> }

StoredKey(alg, size, tag, ksk, zsk, lifetime, pub, activate, inactive, del) ==
    [ alg |-> alg, tag |-> tag, size |-> size, ksk |-> ksk, zsk |-> zsk,
      ttl |-> 0, lifetime |-> lifetime, created |-> 1,
      publish |-> pub, activate |-> activate, inactive |-> inactive,
      delete |-> del ]

\* Keys an earlier run, or another tool, left in the key directory.
InitKeyChoices ==
    { StoredKey(DST_ALG_ECDSA256, 256, 2, FALSE, TRUE, 3, 4, 6, 9, 14),
      StoredKey(DST_ALG_ECDSA256, 256, 4, FALSE, TRUE, 2, 7, 9, 11, 16),
      StoredKey(DST_ALG_ECDSA256, 256, 3, TRUE, FALSE, 0, Unset, Unset, Unset, Unset),
      StoredKey(DST_ALG_RSASHA256, 2048, 5, FALSE, TRUE, 0, 10, 10, Unset, Unset) }

Inventories == { d \in SUBSET InitKeyChoices : Cardinality(d) <= MaxInitKeys }

AllOptions(w) ==
    [ configfile |-> TRUE, policy |-> TRUE, setstart |-> TRUE, setend |-> TRUE,
      start |-> w[1], end |-> w[2], F |-> FALSE ]

NoRun == [cmd |-> "none", err |-> "", stdout |-> <<>>, gens |-> <<>>, disk0 |-> {}]

InitProcess ==
    /\ conf = "ok"
    /\ sysfips = FALSE
    /\ rng = 1
    /\ clock = 3
    /\ pc = "idle"
    /\ cmd = "none"
    /\ ksr = [now |-> 0, start |-> 0, end |-> 0, alg |-> 0, size |-> 0, lifetime |-> 0]
    /\ fipsmode = FALSE
    /\ min_rsa = MIN_RSA
    /\ keys = <<>>
    /\ kk = 0
    /\ noop = TRUE
    /\ inception = 0
    /\ act = 0
    /\ stdout = <<>>
    /\ err = ""
    /\ gens = <<>>
    /\ disk0 = {}
    /\ prev = NoRun
    /\ nruns = 0
    /\ InitNamed

\* Scenario S1 of the specification: one ZSK entry of lifetime 30 days, an
\* empty key directory, the window 2024-01-01 to 2024-04-01 (day 19723 of
\* the epoch, and 91 days).
S1Start == 19723 * TicksPerDay

S1End == S1Start + 91 * TicksPerDay

S1Policy == << ZSK(DST_ALG_ECDSA256, 0, 30 * TicksPerDay) >>

InitS1 ==
    /\ opts = AllOptions(<<S1Start, S1End>>)
    /\ policy = S1Policy
    /\ kasp \in Timings
    /\ disk = {}

InitAny ==
    /\ opts \in { AllOptions(w) : w \in Windows }
    /\ policy \in Policies
    /\ kasp \in Timings
    /\ disk \in Inventories

Init ==
    /\ InitAny \/ InitS1
    /\ InitProcess
    /\ faults = {}

\* ---------------------------------------------------------------- actions

\* A checkparams() that does not ask for an end date.
checkparamsNoEndDate(o) ==
    IF ~o.configfile THEN "requires a configuration file"
    ELSE IF ~o.policy THEN "requires a dnssec-policy"
    ELSE ""

\* checkparams(): the fatal message, "" when the parameters pass.
checkparams(o) ==
    IF ~o.configfile THEN "requires a configuration file"
    ELSE IF ~o.policy THEN "requires a dnssec-policy"
    ELSE IF ~o.setend THEN "requires an end date"
    ELSE ""

\* getkasp(): the fatal message, "" when the policy was loaded.
getkasp(c, pol) ==
    IF c = "unparsable" THEN "unable to load dnssec-policy"
    ELSE IF c = "nopolicy" THEN "failed to load dnssec-policy"
    ELSE IF pol = <<>> THEN "dnssec-policy has no keys configured"
    ELSE ""

\* fatal(): the process ends with a message.
Fatal(msg) ==
    /\ pc' = "exit"
    /\ err' = msg

\* main() up to the command, then checkparams(), getkasp(), get_dnskeys()
\* and setcontext() of the command c; first is the place the command's loop
\* starts at.
Start(c, first) ==
    /\ pc \in {"idle", "exit"}
    /\ nruns < MaxRuns
    /\ nruns' = nruns + 1
    /\ prev' = IF pc = "exit"
               THEN [ cmd |-> cmd, err |-> err, stdout |-> stdout, gens |-> gens,
                      disk0 |-> disk0 ]
               ELSE NoRun
    /\ clock' = clock + 1
    /\ cmd' = c
    /\ min_rsa' = IF sysfips THEN MIN_RSA_FIPS ELSE MIN_RSA
    /\ fipsmode' = (sysfips \/ opts.F)
    /\ disk0' = disk
    /\ stdout' = <<>>
    /\ gens' = <<>>
    /\ ksr' = [ now |-> clock', end |-> opts.end,
                start |-> IF opts.setstart THEN opts.start ELSE clock',
                alg |-> 0, size |-> 0, lifetime |-> 0 ]
    /\ kk' = 1
    /\ noop' = TRUE
    /\ inception' = ksr'.start
    /\ act' = ksr'.start
    /\ LET msg == IF checkparams(opts) # "" THEN checkparams(opts)
                  ELSE getkasp(conf, policy)
       IN IF msg # ""
          THEN Fatal(msg) /\ keys' = <<>>
          ELSE /\ keys' \in get_dnskeys(disk)
               /\ pc' = first
               /\ err' = ""
    /\ UNCHANGED << inputs, named, disk, rng >>

\* main() with the command keygen, up to the loop over the policy keys.
KeygenStart == Start("keygen", "keygen_kk")

\* main() with the command request, up to the bundle loop.
RequestStart == Start("request", "request")

\* A loop over the policy keys that schedules keys for every entry.
KeygenEntryNoSkip ==
    /\ pc = "keygen_kk"
    /\ IF kk > Len(policy)
       THEN /\ IF noop THEN Fatal("policy has no zsks")
                       ELSE pc' = "exit" /\ err' = ""
            /\ keys' = <<>>
            /\ UNCHANGED << ksr, kk, noop, inception, act >>
       ELSE /\ ksr' = [ksr EXCEPT !.alg = policy[kk].alg,
                                  !.lifetime = policy[kk].lifetime,
                                  !.size = policy[kk].size]
            /\ noop' = FALSE
            /\ inception' = ksr.start
            /\ act' = ksr.start
            /\ pc' = "keygen_zsk"
            /\ UNCHANGED << err, keys, kk >>
    /\ UNCHANGED << inputs, named, disk, rng, clock, cmd, fipsmode, min_rsa, stdout,
                    gens, disk0, prev, nruns >>

\* A loop over the policy keys that ends normally when no entry was a ZSK
\* entry.
KeygenEntryNoNoop ==
    /\ pc = "keygen_kk"
    /\ IF kk > Len(policy)
       THEN /\ pc' = "exit"
            /\ err' = ""
            /\ keys' = <<>>
            /\ UNCHANGED << ksr, kk, noop, inception, act >>
       ELSE IF policy[kk].ksk
       THEN /\ kk' = kk + 1
            /\ UNCHANGED << pc, err, keys, ksr, noop, inception, act >>
       ELSE /\ ksr' = [ksr EXCEPT !.alg = policy[kk].alg,
                                  !.lifetime = policy[kk].lifetime,
                                  !.size = policy[kk].size]
            /\ noop' = FALSE
            /\ inception' = ksr.start
            /\ act' = ksr.start
            /\ pc' = "keygen_zsk"
            /\ UNCHANGED << err, keys, kk >>
    /\ UNCHANGED << inputs, named, disk, rng, clock, cmd, fipsmode, min_rsa, stdout,
                    gens, disk0, prev, nruns >>

\* One step of keygen's loop over the policy keys: skip a KSK or CSK entry,
\* set the context for a ZSK entry, or leave the loop (fatal when no entry
\* was a ZSK entry, cleanup and exit otherwise).
KeygenEntry ==
    /\ pc = "keygen_kk"
    /\ IF kk > Len(policy)
       THEN /\ IF noop THEN Fatal("policy has no zsks")
                       ELSE pc' = "exit" /\ err' = ""
            /\ keys' = <<>>
            /\ UNCHANGED << ksr, kk, noop, inception, act >>
       ELSE IF policy[kk].ksk
       THEN /\ kk' = kk + 1
            /\ UNCHANGED << pc, err, keys, ksr, noop, inception, act >>
       ELSE /\ ksr' = [ksr EXCEPT !.alg = policy[kk].alg,
                                  !.lifetime = policy[kk].lifetime,
                                  !.size = policy[kk].size]
            /\ noop' = FALSE
            /\ inception' = ksr.start
            /\ act' = ksr.start
            /\ pc' = "keygen_zsk"
            /\ UNCHANGED << err, keys, kk >>
    /\ UNCHANGED << inputs, named, disk, rng, clock, cmd, fipsmode, min_rsa, stdout,
                    gens, disk0, prev, nruns >>

\* A walk that only starts a generation whose whole lifetime ends before end.
InWindowWholeLifetime(incep, c) == incep + c.lifetime < c.end

\* The condition of keygen's inner loop.
InWindow(incep, c) == incep < c.end

\* The inner loop of keygen ends: inception < end is false.
KeygenLoopEnd ==
    /\ pc = "keygen_zsk"
    /\ ~InWindow(inception, ksr)
    /\ pc' = "keygen_kk"
    /\ kk' = kk + 1
    /\ UNCHANGED << inputs, named, disk, rng, clock, cmd, ksr, fipsmode, min_rsa, keys,
                    noop, inception, act, stdout, err, gens, disk0, prev, nruns >>

\* A loop step without the break on an unlimited lifetime.
LoopStepNoBreak ==
    /\ inception' = ToStdtime(inception + ksr.lifetime)
    /\ UNCHANGED << pc, kk >>

\* The step of keygen's inner loop after create_zsk() returned.
LoopStep ==
    IF ksr.lifetime = 0
    THEN /\ pc' = "keygen_kk"
         /\ kk' = kk + 1
         /\ UNCHANGED inception
    ELSE /\ inception' = ToStdtime(inception + ksr.lifetime)
         /\ UNCHANGED << pc, kk >>

FileLine(k) == [line |-> "file", key |-> Stem(k), at |-> 0]

\* A create_zsk() that prints the file name of a generated key before it
\* writes the key.
CreateZskPrintFirst ==
    /\ pc = "keygen_zsk"
    /\ InWindow(inception, ksr)
    /\ LET msg == CheckAlgorithm(ksr.alg, ksr.size, fipsmode, min_rsa)
           i == FindExisting(policy[kk], keys, inception)
           r == FirstFree(rng, ksr.alg, disk)
           c == [ksr EXCEPT !.size = KeySize(ksr.alg, ksr.size)]
           key == StampKey(CandidateTag(r), c, kasp, act)
       IN IF msg # ""
          THEN /\ Fatal(msg)
               /\ UNCHANGED << disk, rng, ksr, kk, inception, act, stdout, gens >>
          ELSE IF i > 0
          THEN /\ act' = gettime(keys[i], "inactive")
               /\ stdout' = Append(stdout, FileLine(keys[i]))
               /\ gens' = Append(gens, [ entry |-> kk, inception |-> inception,
                                         active |-> act, reused |-> TRUE,
                                         key |-> keys[i], discarded |-> 0 ])
               /\ ksr' = c
               /\ LoopStep
               /\ UNCHANGED << disk, rng, err >>
          ELSE /\ r > 0
               /\ ksr' = c
               /\ \E outcome \in {"ok"} \cup faults :
                      IF outcome = "generate"
                      THEN /\ Fatal("failed to generate key")
                           /\ rng' \in rng..r
                           /\ UNCHANGED << disk, kk, inception, act, stdout, gens >>
                      ELSE IF outcome = "tofile"
                      THEN /\ Fatal("failed to write key")
                           /\ rng' = r + 1
                           /\ disk' \in {disk, disk \cup {key}}
                           /\ act' = Expiration(c, act)
                           /\ stdout' = Append(stdout, FileLine(key))
                           /\ UNCHANGED << kk, inception, gens >>
                      ELSE /\ rng' = r + 1
                           /\ disk' = disk \cup {key}
                           /\ act' = Expiration(c, act)
                           /\ stdout' = Append(stdout, FileLine(key))
                           /\ gens' = Append(gens,
                                  [ entry |-> kk, inception |-> inception,
                                    active |-> act, reused |-> FALSE,
                                    key |-> key, discarded |-> r - rng ])
                           /\ LoopStep
                           /\ UNCHANGED err
    /\ UNCHANGED << inputs, named, clock, cmd, fipsmode, min_rsa, keys, noop, disk0,
                    prev, nruns >>

\* A create_zsk() that, when it fails to write a key, removes the keys the
\* run has written.
CreateZskRollback ==
    /\ pc = "keygen_zsk"
    /\ InWindow(inception, ksr)
    /\ LET msg == CheckAlgorithm(ksr.alg, ksr.size, fipsmode, min_rsa)
           i == FindExisting(policy[kk], keys, inception)
           r == FirstFree(rng, ksr.alg, disk)
           c == [ksr EXCEPT !.size = KeySize(ksr.alg, ksr.size)]
           key == StampKey(CandidateTag(r), c, kasp, act)
       IN IF msg # ""
          THEN /\ Fatal(msg)
               /\ UNCHANGED << disk, rng, ksr, kk, inception, act, stdout, gens >>
          ELSE IF i > 0
          THEN /\ act' = gettime(keys[i], "inactive")
               /\ stdout' = Append(stdout, FileLine(keys[i]))
               /\ gens' = Append(gens, [ entry |-> kk, inception |-> inception,
                                         active |-> act, reused |-> TRUE,
                                         key |-> keys[i], discarded |-> 0 ])
               /\ ksr' = c
               /\ LoopStep
               /\ UNCHANGED << disk, rng, err >>
          ELSE /\ r > 0
               /\ ksr' = c
               /\ \E outcome \in {"ok"} \cup faults :
                      IF outcome = "generate"
                      THEN /\ Fatal("failed to generate key")
                           /\ rng' \in rng..r
                           /\ UNCHANGED << disk, kk, inception, act, stdout, gens >>
                      ELSE IF outcome = "tofile"
                      THEN /\ Fatal("failed to write key")
                           /\ rng' = r + 1
                           /\ disk' = disk0
                           /\ act' = Expiration(c, act)
                           /\ UNCHANGED << kk, inception, stdout, gens >>
                      ELSE /\ rng' = r + 1
                           /\ disk' = disk \cup {key}
                           /\ act' = Expiration(c, act)
                           /\ stdout' = Append(stdout, FileLine(key))
                           /\ gens' = Append(gens,
                                  [ entry |-> kk, inception |-> inception,
                                    active |-> act, reused |-> FALSE,
                                    key |-> key, discarded |-> r - rng ])
                           /\ LoopStep
                           /\ UNCHANGED err
    /\ UNCHANGED << inputs, named, clock, cmd, fipsmode, min_rsa, keys, noop, disk0,
                    prev, nruns >>

\* One pass of keygen's inner loop: create_zsk() for the bundle at inception
\* (an existing key is selected, or a key is generated, stamped and written),
\* then inception += lifetime, or break when the lifetime is unlimited.
\* dst_key_generate() may fail at any draw of the do-while loop, and
\* dst_key_tofile() may fail with the files of the new key written in part
\* (the key is then in the directory or not); both failures are fatal.
CreateZsk ==
    /\ pc = "keygen_zsk"
    /\ InWindow(inception, ksr)
    /\ LET msg == CheckAlgorithm(ksr.alg, ksr.size, fipsmode, min_rsa)
           i == FindExisting(policy[kk], keys, inception)
           r == FirstFree(rng, ksr.alg, disk)
           c == [ksr EXCEPT !.size = KeySize(ksr.alg, ksr.size)]
           key == StampKey(CandidateTag(r), c, kasp, act)
       IN IF msg # ""
          THEN /\ Fatal(msg)
               /\ UNCHANGED << disk, rng, ksr, kk, inception, act, stdout, gens >>
          ELSE IF i > 0
          THEN /\ act' = gettime(keys[i], "inactive")
               /\ stdout' = Append(stdout, FileLine(keys[i]))
               /\ gens' = Append(gens, [ entry |-> kk, inception |-> inception,
                                         active |-> act, reused |-> TRUE,
                                         key |-> keys[i], discarded |-> 0 ])
               /\ ksr' = c
               /\ LoopStep
               /\ UNCHANGED << disk, rng, err >>
          ELSE /\ r > 0
               /\ ksr' = c
               /\ \E outcome \in {"ok"} \cup faults :
                      IF outcome = "generate"
                      THEN /\ Fatal("failed to generate key")
                           /\ rng' \in rng..r
                           /\ UNCHANGED << disk, kk, inception, act, stdout, gens >>
                      ELSE IF outcome = "tofile"
                      THEN /\ Fatal("failed to write key")
                           /\ rng' = r + 1
                           /\ disk' \in {disk, disk \cup {key}}
                           /\ act' = Expiration(c, act)
                           /\ UNCHANGED << kk, inception, stdout, gens >>
                      ELSE /\ rng' = r + 1
                           /\ disk' = disk \cup {key}
                           /\ act' = Expiration(c, act)
                           /\ stdout' = Append(stdout, FileLine(key))
                           /\ gens' = Append(gens,
                                  [ entry |-> kk, inception |-> inception,
                                    active |-> act, reused |-> FALSE,
                                    key |-> key, discarded |-> r - rng ])
                           /\ LoopStep
                           /\ UNCHANGED err
    /\ UNCHANGED << inputs, named, clock, cmd, fipsmode, min_rsa, keys, noop, disk0,
                    prev, nruns >>

\* The bundle loop of request ends: inception <= end is false.
RequestEnd ==
    /\ pc = "request"
    /\ ~(inception <= ksr.end)
    /\ pc' = "exit"
    /\ err' = ""
    /\ keys' = <<>>
    /\ UNCHANGED << inputs, named, disk, rng, clock, cmd, ksr, fipsmode, min_rsa, kk,
                    noop, inception, act, stdout, gens, disk0, prev, nruns >>

\* One pass of the bundle loop of request: the header of the bundle at
\* inception, print_dnskey() for every policy key, then inception = next.
RequestBundle ==
    /\ pc = "request"
    /\ inception <= ksr.end
    /\ Len(stdout) < MaxOut
    /\ LET header == [line |-> "bundle", key |-> <<>>, at |-> inception]
           r == request_bundle(policy, keys, 1, inception,
                               ToStdtime(ksr.end + 1), <<>>)
       IN /\ stdout' = (stdout \o <<header>>) \o r.out
          /\ IF r.failed > 0
             THEN /\ Fatal("no key pair found")
                  /\ kk' = r.failed
                  /\ UNCHANGED inception
             ELSE /\ inception' = r.next
                  /\ kk' = Len(policy) + 1
                  /\ UNCHANGED << pc, err >>
    /\ UNCHANGED << inputs, named, disk, rng, clock, cmd, ksr, fipsmode, min_rsa, keys,
                    noop, act, gens, disk0, prev, nruns >>

Next ==
    \/ KeygenStart
    \/ KeygenEntry
    \/ KeygenLoopEnd
    \/ CreateZsk
    \/ RequestStart
    \/ RequestBundle
    \/ RequestEnd

Spec == Init /\ [][Next]_vars

\* ------------------------------------------------------------ properties

\* The command c has run to its end without a fatal error.
Completed(c) == pc = "exit" /\ cmd = c /\ err = ""

\* The policy entries keygen schedules keys for.
ZskEntries == { i \in 1..Len(policy) : ~policy[i].ksk }

\* Section 4.2 of the specification: the record matches the entry and is
\* eligible at instant t.
EligibleAt(entry, k, t) ==
    /\ dns_kasp_key_match(entry, k)
    /\ k.activate <= t
    /\ (k.inactive = Unset \/ t < k.inactive)

\* The create_zsk() calls of the run that generated a key, and those made
\* for policy entry i.
Generated == { n \in 1..Len(gens) : ~gens[n].reused }

GensOf(i) == { n \in 1..Len(gens) : gens[n].entry = i }

\* The keys a run has printed the file name of.
Printed(out) == { out[n].key : n \in { m \in 1..Len(out) : out[m].line = "file" } }

\* The inceptions of the bundle headers of a run, in the order written.
Headers(out) == SelectSeq(out, LAMBDA l : l.line = "bundle")

\* C1 (coverage): after keygen has completed over [start, end], for every
\* instant t with start <= t <= end and every ZSK entry of the policy, the
\* key directory holds exactly one key that matches the entry and is
\* eligible at t.
C1_Coverage ==
    Completed("keygen") =>
        \A t \in ksr.start..ksr.end : \A i \in ZskEntries :
            Cardinality({ k \in disk : EligibleAt(policy[i], k, t) }) = 1

\* The same for the instants before end only, in a window with start < end
\* where no instant arithmetic of the run wrapped around.
C1_CoverageBeforeEnd ==
    ( /\ Completed("keygen")
      /\ ksr.start < ksr.end
      /\ \A i \in ZskEntries : ksr.end + policy[i].lifetime < StdtimeMod )
    => \A t \in ksr.start..(ksr.end - 1) : \A i \in ZskEntries :
           \E k \in disk : EligibleAt(policy[i], k, t)

\* Two keys of the directory are ZSKs that match one policy entry, have
\* inactive set, and their intervals [activate, inactive) share an instant.
Overlap(k1, k2) ==
    /\ k1 # k2
    /\ \E i \in 1..Len(policy) :
           /\ ~policy[i].ksk
           /\ dns_kasp_key_match(policy[i], k1)
           /\ dns_kasp_key_match(policy[i], k2)
    /\ k1.inactive # Unset
    /\ k2.inactive # Unset
    /\ \E t \in k1.activate..(k1.inactive - 1) : k2.activate <= t /\ t < k2.inactive

NonOverlapping(dir) == \A k1 \in dir, k2 \in dir : ~Overlap(k1, k2)

\* C2 (non-overlap): after keygen has completed, from a key directory whose
\* keys did not overlap, no two ZSKs that match the same entry and have
\* inactive set have overlapping intervals [activate, inactive).
C2_NonOverlap ==
    (Completed("keygen") /\ NonOverlapping(disk0)) => NonOverlapping(disk)

\* C3 (idempotence): a keygen run after a completed keygen run with the same
\* parameters writes no new key, and its standard output lists exactly the
\* keys the first run created.  Stated for a first run that started from an
\* empty key directory, where the keys it printed are the keys it created.
C3_Idempotence ==
    ( /\ Completed("keygen")
      /\ prev.cmd = "keygen"
      /\ prev.err = ""
      /\ prev.disk0 = {} )
    => /\ disk = disk0
       /\ Generated = {}
       /\ Printed(stdout) =
              { Stem(prev.gens[n].key) :
                n \in { m \in 1..Len(prev.gens) : ~prev.gens[m].reused } }

\* The instants request is to emit a bundle at, by the claim: start, and
\* every publish or delete instant in (start, end] of a key that matches a
\* policy entry.
ChangePoints ==
    {ksr.start} \cup
    { t \in UNION { {k.publish, k.delete} :
                    k \in { d \in disk : \E i \in 1..Len(policy) :
                                dns_kasp_key_match(policy[i], d) } } :
      ksr.start < t /\ t <= ksr.end }

BundleInstants == { stdout[n].at : n \in { m \in 1..Len(stdout) : stdout[m].line = "bundle" } }

\* C4 (bundle minimality): request emits a bundle at instant t if and only
\* if t = start, or start < t <= end and a key that matches a policy entry
\* has publish = t or delete = t.  Stated for the runs that completed, over
\* windows with start <= end.
C4_BundleMinimality ==
    (Completed("request") /\ ksr.start <= ksr.end) => BundleInstants = ChangePoints

\* C5 (termination of request): every pass of the bundle loop either leaves
\* the loop or strictly increases inception.
C5_RequestProgress ==
    [][ (pc = "request" /\ pc' = "request") => inception' > inception ]_vars

\* C6 (bundle order): the bundle headers of a request run are written in
\* strictly increasing order of inception, and none lies outside
\* [start, end].
C6_BundleOrder ==
    cmd = "request" =>
        LET h == Headers(stdout)
        IN /\ \A m \in 1..Len(h) : ksr.start <= h[m].at /\ h[m].at <= ksr.end
           /\ \A m \in 1..(Len(h) - 1) : h[m].at < h[m + 1].at

\* C7 (stamping): every key keygen generates for active instant a has
\* created = now, activate = a, publish = a - (dnskey_ttl + publish_safety +
\* propagation), and, for an entry of lifetime L > 0, inactive = a + L and
\* delete = inactive + (max_zone_ttl + propagation + retire_safety +
\* sign_delay); for L = 0, inactive and delete are unset.  The arithmetic is
\* that of isc_stdtime_t.  The key is in the key directory with these values.
C7_Stamping ==
    \A n \in Generated :
        LET k == gens[n].key
            a == gens[n].active
            L == policy[gens[n].entry].lifetime
        IN /\ k \in disk
           /\ k.created = ksr.now
           /\ k.activate = a
           /\ k.publish =
                  ToStdtime(a - (kasp.ttl + kasp.publishsafety + kasp.propagation))
           /\ L > 0 =>
                  /\ k.inactive = ToStdtime(a + L)
                  /\ k.delete = ToStdtime(k.inactive + kasp.ttlsig + kasp.propagation
                                          + kasp.retiresafety + kasp.signdelay)
           /\ L = 0 => (k.inactive = Unset /\ k.delete = Unset)

\* A key was generated for an entry with a lifetime, under durations that
\* are not zero, and another for an entry of unlimited lifetime.
C7_Witness ==
    /\ kasp = SomeDurations
    /\ \E n \in Generated : policy[gens[n].entry].lifetime > 0
    /\ \E n \in Generated : policy[gens[n].entry].lifetime = 0

\* C8 (order of the timing fields): every key keygen writes has
\* publish <= activate and, when inactive and delete are set,
\* activate <= inactive <= delete.
C8_TimingOrder ==
    \A n \in Generated :
        LET k == gens[n].key
        IN /\ k.publish <= k.activate
           /\ k.inactive # Unset => k.activate <= k.inactive
           /\ k.delete # Unset => k.inactive <= k.delete

\* C9 (unlimited lifetime), as claimed: after keygen has completed, every
\* ZSK entry of lifetime 0 had exactly one generation, whatever start and
\* end are.
C9_OneGeneration ==
    Completed("keygen") =>
        \A i \in ZskEntries :
            policy[i].lifetime = 0 => Cardinality(GensOf(i)) = 1

\* C9, amended: a ZSK entry of lifetime 0 never has more than one
\* generation; after keygen has completed it had exactly one when
\* start < end, and none when start >= end.
C9_OneGenerationInWindow ==
    \A i \in ZskEntries :
        policy[i].lifetime = 0 =>
            /\ Cardinality(GensOf(i)) <= 1
            /\ Completed("keygen") =>
                   Cardinality(GensOf(i)) = IF ksr.start < ksr.end THEN 1 ELSE 0

\* keygen has completed over a window with start < end for a policy with an
\* entry of lifetime 0, and the one generation of that entry generated a key.
C9_Witness ==
    /\ Completed("keygen")
    /\ ksr.start < ksr.end
    /\ \E n \in Generated : policy[gens[n].entry].lifetime = 0

\* The first invocation is keygen in scenario S1 and has completed.
S1Keygen ==
    /\ policy = S1Policy
    /\ opts.start = S1Start
    /\ opts.end = S1End
    /\ nruns = 1
    /\ Completed("keygen")

\* C10 (scenario S1), as claimed: three file names, three keys, activated
\* at start, start + 30 days and start + 60 days.
C10_ThreeKeys ==
    S1Keygen =>
        /\ Len(stdout) = 3
        /\ Cardinality(disk) = 3
        /\ { k.activate : k \in disk } =
               { S1Start + d * TicksPerDay : d \in {0, 30, 60} }

\* C10, amended: the window is 91 days long, so the inception start + 90
\* days lies before end: four file names, four keys, activated at start
\* and 30, 60 and 90 days after start.
C10_FourKeys ==
    S1Keygen =>
        /\ Len(stdout) = 4
        /\ Cardinality(Printed(stdout)) = 4
        /\ Cardinality(disk) = 4
        /\ Generated = 1..4
        /\ { k.activate : k \in disk } =
               { S1Start + d * TicksPerDay : d \in {0, 30, 60, 90} }

C10_Witness == S1Keygen /\ Cardinality(disk) = 4

\* ------------------------------------------------- properties of request

\* Positions of the bundle headers in the output of a run.
HeaderPos(out) == { p \in 1..Len(out) : out[p].line = "bundle" }

\* The DNSKEY lines of the bundle whose header is at position p: the lines
\* after p up to the next header.
BundleOf(out, p) ==
    LET later == { q \in HeaderPos(out) : q > p }
        last == IF later = {} THEN Len(out)
                ELSE (CHOOSE q \in later : \A r \in later : q <= r) - 1
    IN SubSeq(out, p + 1, last)

\* The key is in the published DNSKEY set at instant t: its Publish time is
\* not after t and its Delete time, when it has one, is after t (a time that
\* is not set reads as 0).
PublishedAt(k, t) ==
    /\ gettime(k, "publish") <= t
    /\ (gettime(k, "delete") = 0 \/ t < gettime(k, "delete"))

\* The second invocation is request in scenario S2, after the keygen of S1,
\* and has completed.
S2Request ==
    /\ policy = S1Policy
    /\ opts.start = S1Start
    /\ opts.end = S1End
    /\ nruns = 2
    /\ prev.cmd = "keygen"
    /\ prev.err = ""
    /\ Completed("request")

\* Instant of day d of scenario S1, counted from start.
S1Day(d) == S1Start + d * TicksPerDay

\* C11 (scenario S2), as claimed: bundles at start, 30 days - prepub,
\* 30 days, 60 days - prepub, 60 days, and 90 days + retire when that is
\* not after end; one DNSKEY in every bundle.
C11_S2Bundles ==
    S2Request =>
        /\ BundleInstants =
               { S1Start, S1Day(30) - Prepub(kasp), S1Day(30),
                 S1Day(60) - Prepub(kasp), S1Day(60) }
               \cup { t \in { S1Day(90) + Remove(kasp) } : t <= S1End }
        /\ \A p \in HeaderPos(stdout) : Len(BundleOf(stdout, p)) = 1

\* C11, amended: the keygen of S1 left four keys, activated 0, 30, 60 and
\* 90 days after start.  request emits bundles exactly at start and at the
\* instants (30 k days - prepub) and (30 k days + retire) after start,
\* k = 1, 2, 3, that lie in (start, end]; the bundle at instant t holds the
\* DNSKEY of every key with publish <= t < delete: two records from 30 k days - prepub until 30 k days + retire, one otherwise.
C11_S2PublishDeleteBundles ==
    S2Request =>
        /\ BundleInstants =
               {S1Start} \cup
               { t \in { S1Day(30 * k) - Prepub(kasp) : k \in 1..3 } \cup
                       { S1Day(30 * k) + Remove(kasp) : k \in 1..3 } :
                 S1Start < t /\ t <= S1End }
        /\ \A p \in HeaderPos(stdout) :
               LET t == stdout[p].at
                   b == BundleOf(stdout, p)
               IN /\ { b[n].key : n \in 1..Len(b) } =
                         { Stem(k) : k \in { d \in disk : PublishedAt(d, t) } }
                  /\ Len(b) = IF \E k \in 1..3 :
                                    /\ S1Day(30 * k) - Prepub(kasp) <= t
                                    /\ t < S1Day(30 * k) + Remove(kasp)
                              THEN 2 ELSE 1

\* S2 has completed under durations that are not zero: there are bundles
\* with two records.
C11_Witness ==
    /\ S2Request
    /\ kasp = SomeDurations
    /\ \E p \in HeaderPos(stdout) : Len(BundleOf(stdout, p)) = 2

\* The bundles of the current request run that ran through every policy
\* entry: all but the last bundle of a run that ended with a fatal error.
CompleteBundles ==
    { p \in HeaderPos(stdout) :
        ~(err # "" /\ \A q \in HeaderPos(stdout) : q <= p) }

\* The keys of the directory that match policy entry i and are published
\* at instant t.
PublishedFor(i, t) ==
    { d \in disk : dns_kasp_key_match(policy[i], d) /\ PublishedAt(d, t) }

\* The policy entries a bundle at instant t gets to: every entry up to and
\* including the first one without a published key.
Evaluated(t) ==
    { i \in 1..Len(policy) : \A j \in 1..(i - 1) : PublishedFor(j, t) # {} }

\* C12 (the record of a bundle), as claimed: in every bundle that was
\* completed, for each policy entry, exactly one key of the directory
\* matches the entry and is eligible at the inception (activate <=
\* inception, inactive unset or inception < inactive), and the bundle holds
\* the DNSKEY of these keys and of no other.
C12_SingleEligibleRecord ==
    cmd = "request" =>
        \A p \in CompleteBundles :
            LET t == stdout[p].at
                b == BundleOf(stdout, p)
            IN /\ \A i \in 1..Len(policy) :
                      Cardinality({ d \in disk : EligibleAt(policy[i], d, t) }) = 1
               /\ { b[n].key : n \in 1..Len(b) } =
                      { Stem(d) : d \in { k \in disk : \E i \in 1..Len(policy) :
                                              EligibleAt(policy[i], k, t) } }

\* C12, amended: in every bundle, for each policy entry in policy order, up
\* to and including the first entry without one, request emits the DNSKEY of
\* every key of the directory that matches the entry and is published at
\* the inception (publish <= inception, delete unset or inception < delete),
\* once for each entry the key matches, and of no other key.
C12_PublishedRecords ==
    cmd = "request" =>
        \A p \in HeaderPos(stdout) :
            LET t == stdout[p].at
                b == BundleOf(stdout, p)
            IN /\ \A n \in 1..Len(b) : \E d \in disk : b[n].key = Stem(d)
               /\ \A d \in disk :
                      Cardinality({ n \in 1..Len(b) : b[n].key = Stem(d) }) =
                      Cardinality({ i \in Evaluated(t) : d \in PublishedFor(i, t) })

\* A completed bundle holds two DNSKEY records for one ZSK entry: the key
\* that is active and a key that is published ahead of its activation.
C12_Witness ==
    /\ cmd = "request"
    /\ \E p \in CompleteBundles : \E i \in ZskEntries :
           /\ Cardinality(PublishedFor(i, stdout[p].at)) = 2
           /\ \E d \in PublishedFor(i, stdout[p].at) : d.activate > stdout[p].at

\* The policy entries without a published matching key at instant t.
Lacking(t) == { i \in 1..Len(policy) : PublishedFor(i, t) = {} }

\* C13 (fatal on a missing key): a bundle of a request run at whose
\* inception some policy entry, of whatever role, has no published matching
\* key is the last bundle of the run: the run has stopped with the fatal
\* error at the first such entry, and the bundle holds no DNSKEY for that
\* entry or a later one.  Every other bundle holds a DNSKEY for every entry.
C13_FatalOnMissingKey ==
    cmd = "request" =>
        \A p \in HeaderPos(stdout) :
            LET t == stdout[p].at
                b == BundleOf(stdout, p)
            IN IF Lacking(t) # {}
               THEN /\ pc = "exit"
                    /\ err = "no key pair found"
                    /\ \A q \in HeaderPos(stdout) : q <= p
                    /\ kk \in Lacking(t)
                    /\ \A i \in Lacking(t) : kk <= i
                    /\ \A n \in 1..Len(b) : \E i \in 1..(kk - 1) :
                           \E d \in PublishedFor(i, t) : b[n].key = Stem(d)
               ELSE \A i \in 1..Len(policy) : \E n \in 1..Len(b) :
                        \E d \in PublishedFor(i, t) : b[n].key = Stem(d)

\* A request run wrote a complete bundle and stopped in a later bundle, at
\* a policy entry after the first, the entries before it being printed.
C13_Witness ==
    /\ cmd = "request"
    /\ pc = "exit"
    /\ err = "no key pair found"
    /\ Cardinality(HeaderPos(stdout)) >= 2
    /\ kk >= 2
    /\ stdout[Len(stdout)].line = "DNSKEY"

\* C14 (roles): keygen makes no create_zsk() call for a policy entry with
\* ksk set (a KSK or a CSK): every key it selects, generates, writes or
\* prints belongs to an entry without ksk.  request evaluates the entries
\* with ksk set too: every bundle it completed holds the DNSKEY of a key
\* that matches each of them.
C14_KskSkippedByKeygen ==
    /\ cmd = "keygen" =>
           /\ \A n \in 1..Len(gens) : ~policy[gens[n].entry].ksk
           /\ pc = "keygen_zsk" => ~policy[kk].ksk
           /\ Len(stdout) = Len(gens)
           /\ \A n \in 1..Len(gens) : stdout[n] = FileLine(gens[n].key)
           /\ disk \ disk0 = { gens[n].key : n \in Generated }
    /\ cmd = "request" =>
           \A p \in CompleteBundles : \A i \in 1..Len(policy) :
               policy[i].ksk =>
                   \E n \in 1..Len(BundleOf(stdout, p)) :
                       \E d \in disk :
                           /\ dns_kasp_key_match(policy[i], d)
                           /\ d.ksk
                           /\ BundleOf(stdout, p)[n].key = Stem(d)

\* A policy with a KSK entry and a ZSK entry: keygen has generated a key
\* for the ZSK entry alone, and the request run after it has completed a
\* bundle.
C14_Witness ==
    /\ cmd = "request"
    /\ prev.cmd = "keygen"
    /\ prev.err = ""
    /\ prev.gens # <<>>
    /\ \E i \in 1..Len(policy) : policy[i].ksk
    /\ CompleteBundles # {}

\* The command line has the required options and the configuration file
\* holds the policy, with at least one key entry.
ParametersPass ==
    /\ opts.configfile
    /\ opts.policy
    /\ opts.setend
    /\ conf = "ok"
    /\ policy # <<>>

\* C15 (no ZSK entry): when every entry of the policy has ksk set, a keygen
\* run whose parameters pass prints no file name, selects and writes no key,
\* and ends with the fatal error "policy has no zsks".
C15_PolicyHasNoZsks ==
    (cmd = "keygen" /\ ParametersPass /\ ZskEntries = {}) =>
        /\ stdout = <<>>
        /\ gens = <<>>
        /\ disk = disk0
        /\ pc # "keygen_zsk"
        /\ pc = "exit" => err = "policy has no zsks"

\* keygen has ended for a policy of two entries, a KSK and a CSK.
C15_Witness ==
    /\ cmd = "keygen"
    /\ pc = "exit"
    /\ ParametersPass
    /\ Len(policy) = 2
    /\ \E i \in 1..2 : policy[i].ksk /\ policy[i].zsk
    /\ \E i \in 1..2 : policy[i].ksk /\ ~policy[i].zsk
    /\ err = "policy has no zsks"

\* ------------------------------------- command line and algorithm checks

\* An algorithm number dst_algorithm_supported() does not accept.
UnsupportedAlg == 3

\* Policy entries for the checks of create_zsk(): a curve algorithm, RSA
\* sizes below 1024, below 2048, in range and above MAX_RSA, an algorithm
\* that is verify-only in FIPS mode, an unsupported one, and a KSK.
CliEntryChoices ==
    { ZSK(DST_ALG_ECDSA256, 0, 2),
      ZSK(DST_ALG_RSASHA256, 512, 2),
      ZSK(DST_ALG_RSASHA256, MIN_RSA, 2),
      ZSK(DST_ALG_RSASHA256, MIN_RSA_FIPS, 2),
      ZSK(DST_ALG_RSASHA256, MAX_RSA + 1, 2),
      ZSK(DST_ALG_RSASHA1, MIN_RSA_FIPS, 2),
      ZSK(UnsupportedAlg, 0, 2),
      KSK(DST_ALG_ECDSA256, 0, 0) }

CliPolicies == UNION { [1..n -> CliEntryChoices] : n \in 1..MaxPolicy }

\* Stored keys, two of them with the same key tag and different algorithms:
\* keytag_cmp() leaves their order to the order the directory was read in.
CliKeyChoices ==
    { StoredKey(DST_ALG_ECDSA256, 256, 2, FALSE, TRUE, 3, 4, 6, 9, 14),
      StoredKey(DST_ALG_ECDSA256, 256, 4, FALSE, TRUE, 2, 7, 9, 11, 16),
      StoredKey(DST_ALG_RSASHA256, 2048, 2, FALSE, TRUE, 0, 7, 7, Unset, Unset) }

CliInventories == { d \in SUBSET CliKeyChoices : Cardinality(d) <= MaxInitKeys }

\* The command line: which of -l, -k, -i and -e are given, and -F.
Options(l, k, i, e, w, f) ==
    [ configfile |-> l, policy |-> k, setstart |-> i, setend |-> e,
      start |-> w[1], end |-> w[2], F |-> f ]

\* Complete command lines, with and without -F, on systems with and without
\* FIPS mode, over a window and over an empty window.
InitAlgorithms ==
    /\ opts \in { Options(TRUE, TRUE, TRUE, TRUE, w, f) :
                  w \in { <<8, 12>>, <<8, 8>> }, f \in BOOLEAN }
    /\ conf = "ok"
    /\ sysfips \in BOOLEAN
    /\ policy \in CliPolicies
    /\ kasp = NoDurations
    /\ disk \in CliInventories

\* Command lines with one option missing, configuration files that do not
\* parse or do not hold the policy, and a policy without key entries.
InitParameters ==
    /\ opts \in { Options(TRUE, TRUE, TRUE, TRUE, <<8, 12>>, FALSE),
                  Options(FALSE, TRUE, TRUE, TRUE, <<8, 12>>, FALSE),
                  Options(TRUE, FALSE, TRUE, TRUE, <<8, 12>>, FALSE),
                  Options(TRUE, TRUE, FALSE, TRUE, <<8, 12>>, FALSE),
                  Options(TRUE, TRUE, TRUE, FALSE, <<8, 12>>, FALSE) }
    /\ conf \in {"ok", "unparsable", "nopolicy"}
    /\ sysfips = FALSE
    /\ policy \in { <<>>, << ZSK(DST_ALG_ECDSA256, 0, 2) >>,
                    << KSK(DST_ALG_ECDSA256, 0, 0) >> }
    /\ kasp = NoDurations
    /\ disk \in CliInventories

\* InitProcess but for the inputs it fixes.
InitCliProcess ==
    /\ rng = 1
    /\ clock = 3
    /\ pc = "idle"
    /\ cmd = "none"
    /\ ksr = [now |-> 0, start |-> 0, end |-> 0, alg |-> 0, size |-> 0, lifetime |-> 0]
    /\ fipsmode = sysfips
    /\ min_rsa = MIN_RSA
    /\ keys = <<>>
    /\ kk = 0
    /\ noop = TRUE
    /\ inception = 0
    /\ act = 0
    /\ stdout = <<>>
    /\ err = ""
    /\ gens = <<>>
    /\ disk0 = disk
    /\ prev = NoRun
    /\ nruns = 0
    /\ InitNamed

InitCli ==
    /\ InitAlgorithms \/ InitParameters
    /\ InitCliProcess
    /\ faults = {}

SpecCli == InitCli /\ [][Next]_vars

\* The ZSK entries of the policy that the check of create_zsk() rejects in
\* the current run.
Offending ==
    { i \in ZskEntries :
        CheckAlgorithm(policy[i].alg, policy[i].size, fipsmode, min_rsa) # "" }

\* C16 (rejection up front): a keygen run over a policy with a ZSK entry
\* whose algorithm is unsupported or prohibited in FIPS mode, or whose RSA
\* size is out of range, wherever the entry stands in the policy, selects,
\* generates, writes and prints no key, and ends with the fatal error.
C16_FailBeforeAnyKey ==
    (cmd = "keygen" /\ ParametersPass /\ Offending # {}) =>
        /\ gens = <<>>
        /\ stdout = <<>>
        /\ disk = disk0
        /\ pc = "exit" =>
               err \in {"unsupported algorithm", "RSA key size out of range"}

\* The RSA algorithms.
RsaAlgorithms ==
    { DST_ALG_RSASHA1, DST_ALG_NSEC3RSASHA1, DST_ALG_RSASHA256, DST_ALG_RSASHA512 }

\* C17 (RSA minimum in FIPS mode): keygen selects or generates a key for an
\* RSA entry with a size other than 0 only if the size is at most 4096 and
\* at least 2048 when FIPS mode is on, be it by the option -F or by the
\* system, and at least 1024 when it is off.
C17_FipsMinRsa ==
    cmd = "keygen" =>
        \A n \in 1..Len(gens) :
            LET e == policy[gens[n].entry]
            IN (e.alg \in RsaAlgorithms /\ e.size # 0) =>
                   /\ e.size <= MAX_RSA
                   /\ e.size >= IF opts.F \/ sysfips THEN MIN_RSA_FIPS ELSE MIN_RSA

\* ------------------------------------------------------ collision freedom

\* No two keys of the directory with the same algorithm have the same key
\* tag (the same file stem), and none has the tag another would have after
\* revocation.
CollisionFree(dir) ==
    \A k1 \in dir, k2 \in dir :
        (k1 # k2 /\ k1.alg = k2.alg) =>
            /\ Stem(k1) # Stem(k2)
            /\ k1.tag # dst_key_rid(k2.tag)

\* C18 (collision freedom): the key directory stays free of collisions; the
\* keys keygen has added in a run are the keys of its generations, one for
\* each, none of which was in the directory before: a candidate that was
\* discarded is not in the directory.
C18_CollisionFreedom ==
    /\ CollisionFree(disk)
    /\ cmd = "keygen" =>
           /\ disk0 \subseteq disk
           /\ disk \ disk0 = { gens[n].key : n \in Generated }
           /\ Cardinality(disk) = Cardinality(disk0) + Cardinality(Generated)
           /\ \A n \in Generated : \A k \in disk0 : Stem(gens[n].key) # Stem(k)

\* keygen has generated a key after it discarded a candidate with the file
\* stem of a stored key, and one after it discarded a candidate with the
\* tag a key of the directory would have after revocation.
C18_Witness ==
    /\ \E n \in Generated : \E j \in 1..gens[n].discarded : \E k \in disk0 :
           /\ k.alg = gens[n].key.alg
           /\ k.tag = gens[n].key.tag - j
    /\ \E n \in Generated : \E j \in 1..gens[n].discarded : \E k \in disk :
           /\ k.alg = gens[n].key.alg
           /\ k.tag # gens[n].key.tag - j
           /\ dst_key_rid(k.tag) = gens[n].key.tag - j

\* -------------------------------------------------------- fatal parameters

\* C19 (parameters): when a required option (-l, -k, -e) is missing, the
\* configuration file does not parse, the policy is not in it or the policy
\* has no key entry, every invocation, keygen or request, has ended with
\* the fatal error for the first of these that applies, without reading the
\* key directory and without selecting, generating, writing or printing a
\* key.
C19_FatalBeforeKeyIO ==
    (nruns > 0 /\ ~ParametersPass) =>
        /\ pc = "exit"
        /\ err = IF ~opts.configfile THEN "requires a configuration file"
                 ELSE IF ~opts.policy THEN "requires a dnssec-policy"
                 ELSE IF ~opts.setend THEN "requires an end date"
                 ELSE IF conf = "unparsable" THEN "unable to load dnssec-policy"
                 ELSE IF conf = "nopolicy" THEN "failed to load dnssec-policy"
                 ELSE "dnssec-policy has no keys configured"
        /\ keys = <<>>
        /\ stdout = <<>>
        /\ gens = <<>>
        /\ disk = disk0
        /\ rng = 1
        /\ prev.stdout = <<>>
        /\ prev.gens = <<>>

\* keygen, then request, have ended with the fatal error, over a key
\* directory that holds keys, on a command line that lacks the end date
\* only.
C19_Witness ==
    /\ pc = "exit"
    /\ cmd = "request"
    /\ prev.cmd = "keygen"
    /\ prev.err = "requires an end date"
    /\ err = "requires an end date"
    /\ disk # {}
    /\ opts.configfile
    /\ opts.policy
    /\ conf = "ok"
    /\ policy # <<>>

\* ------------------------------------------------------------ determinism

\* The file stems of a set of keys in ascending order of key tag.
RECURSIVE TagOrder(_)
TagOrder(S) ==
    IF S = {} THEN <<>>
    ELSE LET m == CHOOSE k \in S : \A j \in S : k.tag <= j.tag
         IN <<Stem(m)>> \o TagOrder(S \ {m})

\* The stems of the DNSKEY records of a bundle at instant t, from policy
\* entry i on: policy order, then key tag order within an entry.
RECURSIVE StemsFrom(_, _)
StemsFrom(i, t) ==
    IF i > Len(policy) \/ i \notin Evaluated(t) THEN <<>>
    ELSE TagOrder(PublishedFor(i, t)) \o StemsFrom(i + 1, t)

\* C20 (determinism): a request run that follows a request run over the
\* same policy, key directory and window (start given with -i) has written
\* the same output and ended the same way, though now differs and the keys
\* of equal tag may have been read in another order; in every bundle the
\* DNSKEY records stand in policy order and, for one entry, in ascending
\* order of key tag.
C20_Determinism ==
    /\ (cmd = "request" /\ pc = "exit" /\ prev.cmd = "request" /\ opts.setstart) =>
           (stdout = prev.stdout /\ err = prev.err)
    /\ cmd = "request" =>
           \A p \in HeaderPos(stdout) :
               LET b == BundleOf(stdout, p)
               IN [ n \in 1..Len(b) |-> b[n].key ] = StemsFrom(1, stdout[p].at)

\* Two request runs have completed over a key directory with two keys of
\* the same key tag and different algorithms, both of them in one bundle.
C20_Witness ==
    /\ prev.cmd = "request"
    /\ prev.err = ""
    /\ Completed("request")
    /\ \E k1 \in disk, k2 \in disk :
           /\ k1.tag = k2.tag
           /\ k1.alg # k2.alg
           /\ \E p \in HeaderPos(stdout) :
                  {Stem(k1), Stem(k2)} \subseteq
                      { BundleOf(stdout, p)[n].key : n \in 1..Len(BundleOf(stdout, p)) }

\* ------------------------------------- failing library calls, edge windows

\* The windows <<start, end>> of the runs with failing library calls: a
\* window of two lifetimes, and start = end, once at the last instant of
\* isc_stdtime_t.
EnvWindows ==
    { <<8, 12>>, <<8, 8>>, <<StdtimeMod - 1, StdtimeMod - 1>> }

EnvPolicies ==
    { << ZSK(DST_ALG_ECDSA256, 0, 2) >>,
      << ZSK(DST_ALG_ECDSA256, 0, 0) >>,
      << ZSK(DST_ALG_ECDSA256, 0, 2), ZSK(DST_ALG_RSASHA256, 2048, 3) >>,
      << KSK(DST_ALG_ECDSA256, 0, 0) >> }

\* Runs in which dst_key_generate() and dst_key_tofile() may fail.
InitEnv ==
    /\ opts \in { AllOptions(w) : w \in EnvWindows }
    /\ policy \in EnvPolicies
    /\ kasp \in Timings
    /\ disk \in Inventories
    /\ faults = {"generate", "tofile"}
    /\ InitProcess

SpecEnv == InitEnv /\ [][Next]_vars

\* ------------------------------------------- properties of edge windows

\* C21 (start = end): when start = end, request writes exactly one bundle,
\* the one at inception = start, whenever it does not fail fatally: it never
\* writes a second bundle header, and a run that completes has written one.
C21_OneBundle ==
    (cmd = "request" /\ ksr.start = ksr.end /\ err = "") =>
        /\ Len(Headers(stdout)) <= 1
        /\ \A n \in 1..Len(Headers(stdout)) : Headers(stdout)[n].at = ksr.start
        /\ pc = "exit" => Len(Headers(stdout)) = 1

\* ----------------------------------------------- properties of the walk

\* The inventory when the n-th create_zsk() call of the run was made: the
\* keys the run started from and the keys the calls before it created.
InventoryAt(n) ==
    disk0 \cup { gens[m].key : m \in { j \in 1..(n - 1) : ~gens[j].reused } }

\* The n-th create_zsk() call is the first one for its policy entry.
FirstOfEntry(n) == n = 1 \/ gens[n - 1].entry # gens[n].entry

\* C22 (reuse and chain): at each inception keygen reuses a key if and only
\* if the inventory holds a record that matches the entry and is eligible at
\* the inception; the first active instant of an entry is start, the active
\* instant after a reuse is the reused record's inactive, after a generation
\* it is the active instant plus the lifetime, and a generated key's
\* activate is the inactive of the key of the preceding generation.
C22_ReuseChain ==
    cmd = "keygen" =>
        \A n \in 1..Len(gens) :
            LET g == gens[n]
                e == policy[g.entry]
            IN /\ g.reused <=>
                      \E k \in InventoryAt(n) : EligibleAt(e, k, g.inception)
               /\ g.reused => EligibleAt(e, g.key, g.inception)
               /\ FirstOfEntry(n) => g.active = ksr.start
               /\ ~FirstOfEntry(n) =>
                      /\ g.active = gettime(gens[n - 1].key, "inactive")
                      /\ ~gens[n - 1].reused =>
                             g.active = ToStdtime(gens[n - 1].active + e.lifetime)
               /\ ~g.reused => g.key.activate = g.active

\* The create_zsk() calls of the run for policy entry i, in order.
EntryGens(i) == SelectSeq(gens, LAMBDA g : g.entry = i)

\* The number of instants start, start + L, start + 2L, ... below end.
WalkLength(start, end, L) ==
    IF start >= end THEN 0 ELSE ((end - start - 1) \div L) + 1

\* C23 (walk): for every ZSK entry with lifetime L > 0 the walk of keygen
\* visits exactly the inceptions start, start + L, start + 2L, ... that are
\* below end, none when start >= end, and then ends; inception += L never
\* wraps around.
C23_Walk ==
    cmd = "keygen" =>
        \A i \in { j \in ZskEntries : policy[j].lifetime > 0 } :
            LET L == policy[i].lifetime
                g == EntryGens(i)
            IN /\ \A k \in 1..Len(g) :
                      /\ g[k].inception = ksr.start + (k - 1) * L
                      /\ g[k].inception < ksr.end
               /\ Len(g) <= WalkLength(ksr.start, ksr.end, L)
               /\ (err = "" /\ (pc = "exit" \/ kk > i)) =>
                      Len(g) = WalkLength(ksr.start, ksr.end, L)

\* C24 (created keys join the inventory of the run): a later create_zsk()
\* call of the same run, for the same or a later policy entry, at an
\* inception that a key created earlier in the run matches and covers, finds
\* that key and generates no other key.
C24_CreatedKeyConsulted ==
    cmd = "keygen" =>
        \A n \in Generated : \A m \in (n + 1)..Len(gens) :
            EligibleAt(policy[gens[m].entry], gens[n].key, gens[m].inception) =>
                gens[m].reused

\* ------------------------------------- properties of failing library calls

\* The fatal messages of a failed dst_key_generate() or dst_key_tofile().
GenerationFailures == { "failed to generate key", "failed to write key" }

\* C25 (file name after persistence): keygen prints one file name line per
\* completed generation, in policy entry order and then in generation order;
\* the key of a line is in the key directory when the line is printed, a
\* reused key as it was before the run (not stamped or written again); when
\* the generation or the writing of a key fails the run ends fatally and no
\* line names that key.
C25_PrintAfterPersist ==
    cmd = "keygen" =>
        /\ Len(stdout) = Len(gens)
        /\ \A n \in 1..Len(gens) :
               /\ stdout[n] = [line |-> "file", key |-> Stem(gens[n].key), at |-> 0]
               /\ gens[n].key \in disk
               /\ gens[n].reused <=> gens[n].key \in disk0
               /\ n > 1 =>
                      /\ gens[n - 1].entry <= gens[n].entry
                      /\ gens[n - 1].entry = gens[n].entry =>
                             gens[n].inception =
                                 ToStdtime(gens[n - 1].inception
                                           + policy[gens[n].entry].lifetime)
        /\ err \in GenerationFailures =>
               /\ pc = "exit"
               /\ \A k \in disk \ disk0 :
                      (\A n \in 1..Len(gens) : gens[n].key # k) =>
                          Stem(k) \notin Printed(stdout)

\* A run that selected an existing key and printed its name, and then failed
\* to write a generated key, parts of which are in the key directory.
C25_Witness ==
    /\ cmd = "keygen"
    /\ pc = "exit"
    /\ err = "failed to write key"
    /\ \E n \in 1..Len(gens) : gens[n].reused
    /\ \E k \in disk \ disk0 : Stem(k) \notin Printed(stdout)

\* C26 (monotonic key directory): no step of a keygen run, a step that ends
\* the run with a failed generation or write included, removes a key from
\* the key directory or changes a key in it, a key written earlier in the
\* same run included; a key that is added takes the file stem of no key that
\* is there; request does not change the key directory.
C26_DiskMonotonic ==
    [][ /\ disk \subseteq disk'
        /\ \A k \in disk' \ disk : \A j \in disk : Stem(k) # Stem(j)
        /\ cmd' = "request" => disk' = disk ]_vars

\* A run that wrote a key next to the keys it started from, and then ended
\* with a failed generation; all of these keys are in the key directory.
C26_Witness ==
    /\ cmd = "keygen"
    /\ pc = "exit"
    /\ err = "failed to generate key"
    /\ disk0 # {}
    /\ Generated # {}
    /\ disk = disk0 \cup { gens[n].key : n \in Generated }

\* ------------------------------------ properties of keygen, then request

\* The run is a request that follows a keygen which completed from an empty
\* key directory, for a policy all of whose entries are ZSK entries.
RequestAfterKeygen ==
    /\ cmd = "request"
    /\ prev.cmd = "keygen"
    /\ prev.err = ""
    /\ prev.disk0 = {}
    /\ \A i \in 1..Len(policy) : policy[i].zsk /\ ~policy[i].ksk

\* C27 (keygen, then request): after keygen has completed from an empty key
\* directory over [start, end] for a policy of ZSK entries, request over the
\* same policy and window is never fatal with "no key pair found": at the
\* inception of every bundle every entry has a matching key with
\* publish <= inception and delete unset or inception < delete.
C27_RequestAfterKeygen ==
    RequestAfterKeygen =>
        /\ err # "no key pair found"
        /\ (pc = "request" /\ inception <= ksr.end) =>
               \A i \in 1..Len(policy) :
                   \E k \in disk :
                       dns_kasp_key_match(policy[i], k) /\ PublishedAt(k, inception)

\* ------------------------------------------------------ interface manager

\* The variables of dnssec-ksr.
dnssec ==
    << inputs, disk, rng, clock, pc, cmd, ksr, fipsmode, min_rsa, keys, kk, noop,
       inception, act, stdout, err, gens, disk0, prev, nruns >>

\* The socket address do_ipv6() listens on (the wildcard address and
\* ns_g_port), and the IPv4 socket addresses do_ipv4() may build.
Ipv6Any == 0

Ipv4Addrs == 1..MaxAddr

\* The passes of the inner loop of do_ipv4() that go beyond the test of
\* match, in order: the socket address each builds from the interface and
\* the listen-on element.  A pass with match <= 0 changes nothing and is left
\* out (match is not initialised, so that any pass may be of either kind when
\* dns_acl_match() fails); a probe, an iterator or an iteration that fails
\* gives fewer passes.
IterChoices == UNION { [1..n -> Ipv4Addrs] : n \in 0..MaxIter }

\* mgr->generation++ on an unsigned int.
NextGeneration(g) == (g + 1) % (2 ^ GenerationBits)

\* find_matching_interface(): the index of the first interface of the list
\* with the address, 0 for NULL.
find_matching_interface(list, addr) ==
    IF \E i \in 1..Len(list) : list[i].addr = addr
    THEN CHOOSE i \in 1..Len(list) :
             /\ list[i].addr = addr
             /\ \A j \in 1..(i - 1) : list[j].addr # addr
    ELSE 0

\* ISC_LIST_UNLINK of the i-th interface.
Unlink(list, i) == SubSeq(list, 1, i - 1) \o SubSeq(list, i + 1, Len(list))

\* ns_interface_create(): the interface appended to the list.
NewInterface(addr, g) ==
    [addr |-> addr, generation |-> g, references |-> 1, udp |-> FALSE, tcp |-> FALSE]

\* What may happen in ns_interface_setup(): ns_interface_create() fails,
\* ns_interface_listenudp() fails (with no client attached, or after
\* ns_clientmgr_createclients() attached a client), ns_interface_accepttcp()
\* fails, or nothing fails.
SetupOutcomes ==
    { "ok", "tcp fails", "create fails", "udp fails", "udp fails, client attached" }

UdpFailures == { "udp fails", "udp fails, client attached" }

\* ns_interface_setup(): the list after the call.  The interface is appended
\* by ns_interface_create() and unlinked again when listening on UDP failed;
\* a failure on the TCP side leaves it on the list.
ns_interface_setup(list, addr, g, outcome) ==
    IF outcome = "create fails" THEN list
    ELSE IF outcome \in UdpFailures
         THEN Unlink(Append(list, NewInterface(addr, g)), Len(list) + 1)
    ELSE Append(list, [NewInterface(addr, g) EXCEPT !.udp = TRUE,
                                                    !.tcp = (outcome = "ok")])

\* A purge that takes no interface for old.
FirstOldNone(list, g) == 0

\* purge_old_interfaces(): the index of the first interface of the list whose
\* generation is not the current one, 0 when there is none.
FirstOld(list, g) ==
    IF \E i \in 1..Len(list) : list[i].generation # g
    THEN CHOOSE i \in 1..Len(list) :
             /\ list[i].generation # g
             /\ \A j \in 1..(i - 1) : list[j].generation = g
    ELSE 0

\* The body of do_ipv6(), and of the inner loop of do_ipv4() for an address
\* that matches: the interface with the address gets the current generation,
\* or ns_interface_setup() is called; rest is what the iterator has left.
Listen(addr, rest) ==
    LET i == find_matching_interface(interfaces, addr)
    IN IF i > 0
       THEN /\ interfaces' = [interfaces EXCEPT ![i].generation = mgr.generation]
            /\ scan' = [scan EXCEPT !.iter = rest, !.seen = @ \cup {addr}]
            /\ UNCHANGED << mgr, unlinked >>
       ELSE \E outcome \in SetupOutcomes :
                /\ interfaces' =
                       ns_interface_setup(interfaces, addr, mgr.generation, outcome)
                /\ scan' = [scan EXCEPT
                               !.iter = rest,
                               !.seen = @ \cup {addr},
                               !.failed = IF outcome \in UdpFailures
                                          THEN @ \cup {addr} ELSE @]
                /\ mgr' = IF outcome \in {"create fails", "udp fails"}
                          THEN mgr
                          ELSE [mgr EXCEPT !.references = @ + 1]
                /\ unlinked' = IF outcome = "udp fails, client attached"
                               THEN [unlinked EXCEPT ![1] = @ + 1]
                               ELSE unlinked

\* ns_interfacemgr_scan() up to do_ipv6(): the generation is incremented.
\* The system gives the result of isc_net_probeipv6() and what the interface
\* iterator will return.
ScanStart ==
    /\ nthread.pc = "idle"
    /\ nthread.calls < MaxCalls
    /\ mgr' = [mgr EXCEPT !.generation = NextGeneration(@)]
    /\ nthread' = [pc |-> "scan_ipv6", call |-> "scan", calls |-> nthread.calls + 1]
    /\ \E v6 \in BOOLEAN, it \in IterChoices :
           scan' = [ ipv6 |-> v6, iter |-> it,
                     before |-> { interfaces[i].addr : i \in 1..Len(interfaces) },
                     seen |-> {}, failed |-> {} ]
    /\ UNCHANGED << interfaces, unlinked, dnssec >>

\* do_ipv6(), when isc_net_probeipv6() succeeded.
DoIpv6 ==
    /\ nthread.pc = "scan_ipv6"
    /\ nthread' = [nthread EXCEPT !.pc = "scan_ipv4"]
    /\ IF scan.ipv6
       THEN Listen(Ipv6Any, scan.iter)
       ELSE UNCHANGED << mgr, interfaces, unlinked, scan >>
    /\ UNCHANGED dnssec

\* do_ipv4(): one pass of its inner loop, or its end.
DoIpv4 ==
    /\ nthread.pc = "scan_ipv4"
    /\ IF scan.iter = <<>>
       THEN /\ nthread' = [nthread EXCEPT !.pc = "scan_purge"]
            /\ UNCHANGED << mgr, interfaces, unlinked, scan >>
       ELSE /\ UNCHANGED nthread
            /\ Listen(Head(scan.iter), Tail(scan.iter))
    /\ UNCHANGED dnssec

\* One pass of the loop of purge_old_interfaces() that finds an old
\* interface: it is unlinked and detached.  When that was its last reference
\* ns_interface_destroy() calls ns_interfacemgr_detach(), which locks the
\* manager; the thread that holds that lock already (in
\* ns_interfacemgr_shutdown()) locks it a second time.
PurgeStep ==
    /\ nthread.pc \in {"scan_purge", "shutdown_purge"}
    /\ LET i == FirstOld(interfaces, mgr.generation)
       IN /\ i > 0
          /\ interfaces' = Unlink(interfaces, i)
          /\ IF interfaces[i].references > 1
             THEN /\ unlinked' =
                         [unlinked EXCEPT ![interfaces[i].references - 1] = @ + 1]
                  /\ UNCHANGED << mgr, nthread >>
             ELSE IF mgr.lock
             THEN /\ nthread' = [nthread EXCEPT !.pc = "relock"]
                  /\ UNCHANGED << mgr, unlinked >>
             ELSE /\ mgr' = [mgr EXCEPT !.references = @ - 1]
                  /\ UNCHANGED << unlinked, nthread >>
    /\ UNCHANGED << scan, dnssec >>

\* LOCK() of a mutex the thread holds.  The thread blocks for ever (no step),
\* the lock call returns an error and the check of LOCK() ends the process,
\* or the call returns as if the mutex had been free, and
\* ns_interfacemgr_detach() goes on and unlocks it.
Relock ==
    /\ nthread.pc = "relock"
    /\ \E outcome \in {"error", "acquired"} :
           IF outcome = "error"
           THEN /\ nthread' = [nthread EXCEPT !.pc = "aborted"]
                /\ UNCHANGED mgr
           ELSE /\ nthread' = [nthread EXCEPT !.pc = "shutdown_purge"]
                /\ mgr' = [mgr EXCEPT !.references = @ - 1, !.lock = FALSE]
    /\ UNCHANGED << interfaces, unlinked, scan, dnssec >>

\* ns_interfacemgr_scan() returns: purge_old_interfaces() found no other old
\* interface.
ScanEnd ==
    /\ nthread.pc = "scan_purge"
    /\ FirstOld(interfaces, mgr.generation) = 0
    /\ nthread' = [nthread EXCEPT !.pc = "idle"]
    /\ UNCHANGED << mgr, interfaces, unlinked, scan, dnssec >>

\* ns_interfacemgr_shutdown() up to purge_old_interfaces(): the manager is
\* locked and the generation is incremented.
ShutdownStart ==
    /\ nthread.pc = "idle"
    /\ nthread.calls < MaxCalls
    /\ ~mgr.lock
    /\ mgr' = [mgr EXCEPT !.generation = NextGeneration(@), !.lock = TRUE]
    /\ nthread' = [pc |-> "shutdown_purge", call |-> "shutdown",
                   calls |-> nthread.calls + 1]
    /\ UNCHANGED << interfaces, unlinked, scan, dnssec >>

\* ns_interfacemgr_shutdown() returns: INSIST(ISC_LIST_EMPTY()), UNLOCK().
ShutdownEnd ==
    /\ nthread.pc = "shutdown_purge"
    /\ FirstOld(interfaces, mgr.generation) = 0
    /\ IF interfaces # <<>>
       THEN /\ nthread' = [nthread EXCEPT !.pc = "aborted"]
            /\ UNCHANGED mgr
       ELSE /\ nthread' = [nthread EXCEPT !.pc = "idle"]
            /\ mgr' = [mgr EXCEPT !.lock = FALSE]
    /\ UNCHANGED << interfaces, unlinked, scan, dnssec >>

\* ns_interface_attach() by a client, on an interface of the list.
ClientAttach ==
    /\ nthread.pc # "aborted"
    /\ \E i \in 1..Len(interfaces) :
           /\ interfaces[i].udp
           /\ interfaces[i].references < 1 + MaxRefs
           /\ interfaces' = [interfaces EXCEPT ![i].references = @ + 1]
    /\ UNCHANGED << mgr, unlinked, nthread, scan, dnssec >>

\* ns_interface_detach() by a client, on an interface of the list (the list
\* keeps its reference).
ClientDetach ==
    /\ nthread.pc # "aborted"
    /\ \E i \in 1..Len(interfaces) :
           /\ interfaces[i].references > 1
           /\ interfaces' = [interfaces EXCEPT ![i].references = @ - 1]
    /\ UNCHANGED << mgr, unlinked, nthread, scan, dnssec >>

\* ns_interface_detach() by a client, on an interface that is off the list:
\* with the last reference ns_interface_destroy() runs, and
\* ns_interfacemgr_detach() waits for the lock of the manager.
ClientRelease ==
    /\ nthread.pc # "aborted"
    /\ \E r \in { n \in 1..MaxRefs : unlinked[n] > 0 } :
           IF r > 1
           THEN /\ unlinked' = [unlinked EXCEPT ![r] = @ - 1, ![r - 1] = @ + 1]
                /\ UNCHANGED mgr
           ELSE /\ ~mgr.lock
                /\ unlinked' = [unlinked EXCEPT ![1] = @ - 1]
                /\ mgr' = [mgr EXCEPT !.references = @ - 1]
    /\ UNCHANGED << interfaces, nthread, scan, dnssec >>

\* named starts with the interface manager just created; dnssec-ksr is not
\* run.
InitNamedOnly ==
    /\ opts = AllOptions(<<8, 12>>)
    /\ policy = S1Policy
    /\ kasp = NoDurations
    /\ disk = {}
    /\ faults = {}
    /\ InitProcess

NextNamed ==
    \/ ScanStart
    \/ DoIpv6
    \/ DoIpv4
    \/ PurgeStep
    \/ ScanEnd
    \/ ShutdownStart
    \/ ShutdownEnd
    \/ Relock
    \/ ClientAttach
    \/ ClientDetach
    \/ ClientRelease

SpecNamed == InitNamedOnly /\ [][NextNamed]_vars

\* ------------------------------------ properties of the interface manager

\* C28 (shutdown): ns_interfacemgr_shutdown() always returns, with the list
\* of interfaces empty; the thread never locks the manager while it holds
\* the lock of the manager (when the purge drops the last reference of an
\* interface and ns_interface_destroy() calls ns_interfacemgr_detach()), and
\* the call never ends the process.
C28_ShutdownReturns ==
    /\ nthread.pc \notin {"relock", "aborted"}
    /\ (nthread.call = "shutdown" /\ nthread.pc = "idle") => interfaces = <<>>

\* C29 (scan): when ns_interfacemgr_scan() has returned, every interface of
\* the list has the current generation of the manager, no two interfaces of
\* the list have the same socket address, every interface of the list has an
\* address that was seen in this scan, and none is an interface whose setup
\* failed on the UDP side.
C29_ScanResult ==
    (nthread.call = "scan" /\ nthread.pc = "idle") =>
        /\ \A i \in 1..Len(interfaces) :
               /\ interfaces[i].generation = mgr.generation
               /\ interfaces[i].addr \in scan.seen
               /\ interfaces[i].udp
        /\ \A i, j \in 1..Len(interfaces) :
               i # j => interfaces[i].addr # interfaces[j].addr

\* A scan has returned that did not see the address of an interface listed
\* before it, in which a setup failed on the UDP side, and that left an
\* interface on the list.
C29_Witness ==
    /\ nthread.call = "scan"
    /\ nthread.pc = "idle"
    /\ scan.before \ scan.seen # {}
    /\ scan.failed # {}
    /\ interfaces # <<>>
====
